---- MODULE Spec2Model ----
(***************************************************************************)
(* DevToolsAgent (src/src/dev_tools/agent.py): the function-calling chat   *)
(* loop run_openai_chat_loop, the dispatcher call_function and the three   *)
(* operations that shell out to black/pylint, unittest and git.            *)
(*                                                                         *)
(* Text is modelled as a sequence of tokens; " " and "\n" are the          *)
(* whitespace tokens, every other token is a run of non-blank characters.  *)
(***************************************************************************)
EXTENDS Integers, Sequences, FiniteSets, TLC

\* ------------------------------------------------------------------ bounds
\* user turns accepted in one session
MaxTurns == 2
\* invocation requests the intent source issues within one session
MaxInvocations == 2

None == "None"

\* ------------------------------------------------------- text primitives
IsSpace(tok) == tok \in {" ", "\n"}

\* "Error" in text: the tokens that contain the substring Error
ErrorTokens == {"Error", "Error:", "SyntaxError"}

ContainsError(text) == \E i \in 1..Len(text) : text[i] \in ErrorTokens

RECURSIVE LStrip(_)
LStrip(text) ==
  IF text = <<>> THEN <<>>
  ELSE IF IsSpace(Head(text)) THEN LStrip(Tail(text)) ELSE text

RECURSIVE RStrip(_)
RStrip(text) ==
  IF text = <<>> THEN <<>>
  ELSE IF IsSpace(text[Len(text)]) THEN RStrip(SubSeq(text, 1, Len(text) - 1))
       ELSE text

\* str.strip()
Strip(text) == RStrip(LStrip(text))

\* str.split(): the non-blank words of a text, in order
RECURSIVE Split(_)
Split(text) ==
  IF text = <<>> THEN <<>>
  ELSE IF IsSpace(Head(text)) THEN Split(Tail(text))
       ELSE <<Head(text)>> \o Split(Tail(text))

\* str.splitlines(): the lines of a text, without their line breaks
RECURSIVE SplitLinesAcc(_, _)
SplitLinesAcc(text, cur) ==
  IF text = <<>> THEN (IF cur = <<>> THEN <<>> ELSE <<cur>>)
  ELSE IF Head(text) = "\n" THEN <<cur>> \o SplitLinesAcc(Tail(text), <<>>)
       ELSE SplitLinesAcc(Tail(text), Append(cur, Head(text)))

SplitLines(text) == SplitLinesAcc(text, <<>>)

\* str.lower() on the operator's input words
Lower(tok) ==
  CASE tok = "EXIT" -> "exit"
    [] tok = "Exit" -> "exit"
    [] OTHER -> tok

LowerText(text) == [i \in 1..Len(text) |-> Lower(text[i])]

\* --------------------------------------------------------------- schemas
RegisteredNames == {"run_formatter_linter", "run_unit_tests", "check_git_status"}

\* a schema list that does not advertise check_git_status
FunctionSchemasWithoutGit ==
  << [name |-> "run_formatter_linter", parameters |-> "RunFormatterLinterRequest"],
     [name |-> "run_unit_tests", parameters |-> "RunUnitTestsRequest"] >>

\* get_openai_function_schemas(): the advertised operations, in order
FunctionSchemas ==
  << [name |-> "run_formatter_linter", parameters |-> "RunFormatterLinterRequest"],
     [name |-> "run_unit_tests", parameters |-> "RunUnitTestsRequest"],
     [name |-> "check_git_status", parameters |-> "CheckGitStatusRequest"] >>

\* the declared fields of each request model (all Optional[str], default None)
ModelFields(model) ==
  CASE model = "RunFormatterLinterRequest" -> {"path"}
    [] model = "RunUnitTestsRequest" -> {"test_path"}
    [] model = "CheckGitStatusRequest" -> {}

ArgKeys == {"path", "test_path"}

\* a JSON value: t is its JSON type, v its text
Absent == [t |-> "absent", v |-> ""]
JNull == [t |-> "null", v |-> ""]
JStr(s) == [t |-> "str", v |-> s]
JInt(s) == [t |-> "int", v |-> s]

\* Optional[str]: a string or null is accepted, anything else is rejected
ValidOptionalStr(val) == val.t \in {"str", "null"}

\* a validation that converts any scalar to a string instead of rejecting it
CoerceLax(model, arguments) ==
  [ok |-> TRUE, fields |-> {},
   value |-> [model |-> model,
              data |-> [f \in ModelFields(model) |->
                          IF arguments[f].t \in {"str", "int"}
                          THEN arguments[f].v ELSE None]]]

\* Model(**arguments): pydantic validation of a keyword mapping.  Unknown
\* keys are ignored, an absent field takes its default None.
Coerce(model, arguments) ==
  LET bad == {f \in ModelFields(model) :
                arguments[f] # Absent /\ ~ValidOptionalStr(arguments[f])}
  IN IF bad # {}
     THEN [ok |-> FALSE, fields |-> bad, value |-> None]
     ELSE [ok |-> TRUE, fields |-> {},
           value |-> [model |-> model,
                      data |-> [f \in ModelFields(model) |->
                                  IF arguments[f].t = "str"
                                  THEN arguments[f].v ELSE None]]]

\* ------------------------------------------------------------ json.loads
\* The raw argument text of a function call is a sequence of lexical tokens.
P(c) == [k |-> "punct", v |-> c]
S(c) == [k |-> "str", v |-> c]
N(c) == [k |-> "int", v |-> c]
Null == [k |-> "null", v |-> ""]

IsJsonValue(tok) == tok.k \in {"str", "int", "null"}

JsonValue(tok) ==
  CASE tok.k = "str" -> JStr(tok.v)
    [] tok.k = "int" -> JInt(tok.v)
    [] tok.k = "null" -> JNull

EmptyMapping == [f \in ArgKeys |-> Absent]

\* the members of an object: key : value (, key : value)*; a later duplicate
\* key overrides an earlier one.  The mapping keeps the keys some request
\* model declares; the models ignore every other key.
RECURSIVE ParseMembers(_, _)
ParseMembers(toks, acc) ==
  IF Len(toks) < 3 \/ toks[1].k # "str" \/ toks[2] # P(":")
     \/ ~IsJsonValue(toks[3])
  THEN [ok |-> FALSE, value |-> None]
  ELSE LET acc2 == IF toks[1].v \in ArgKeys
                   THEN [acc EXCEPT ![toks[1].v] = JsonValue(toks[3])]
                   ELSE acc
           rest == SubSeq(toks, 4, Len(toks))
       IN IF rest = <<>> THEN [ok |-> TRUE, value |-> acc2]
          ELSE IF rest[1] = P(",")
               THEN ParseMembers(Tail(rest), acc2)
               ELSE [ok |-> FALSE, value |-> None]

\* json.loads(func_args): kind is "object" (a dict), "array" (a list) or
\* "error" (json.JSONDecodeError)
JsonLoads(text) ==
  IF text = <<P("["), P("]")>> THEN [kind |-> "array", value |-> None]
  ELSE IF Len(text) < 2 \/ text[1] # P("{") \/ text[Len(text)] # P("}")
       THEN [kind |-> "error", value |-> None]
       ELSE IF Len(text) = 2 THEN [kind |-> "object", value |-> EmptyMapping]
            ELSE LET r == ParseMembers(SubSeq(text, 2, Len(text) - 1), EmptyMapping)
                 IN IF r.ok THEN [kind |-> "object", value |-> r.value]
                    ELSE [kind |-> "error", value |-> None]

\* ----------------------------------------------------- external processes
RECURSIVE Join(_)
\* " ".join(words)
Join(words) ==
  IF words = <<>> THEN <<>>
  ELSE IF Len(words) = 1 THEN <<words[1]>>
       ELSE <<words[1], " ">> \o Join(Tail(words))

\* python's `x or default` on an optional string
OrDefault(x, default) == IF x = None \/ x = "" THEN default ELSE x

BlackTimeout == 10
PylintTimeout == 10
UnitTestTimeout == 30
GitTimeout == 10

\* run_formatter_linter formatting once more after the lint
CommandsRelaunch(function_name, request) ==
  CASE function_name = "run_formatter_linter" ->
         << [argv |-> <<"black", OrDefault(request.data.path, ".")>>,
             timeout |-> BlackTimeout],
            [argv |-> <<"pylint", "--ignore=.venv",
                        OrDefault(request.data.path, "src")>>,
             timeout |-> PylintTimeout],
            [argv |-> <<"black", OrDefault(request.data.path, ".")>>,
             timeout |-> BlackTimeout] >>
    [] function_name = "run_unit_tests" ->
         << [argv |-> <<"python", "-m", "unittest", "discover", "-s",
                        OrDefault(request.data.test_path, "tests")>>,
             timeout |-> UnitTestTimeout] >>
    [] function_name = "check_git_status" ->
         << [argv |-> <<"git", "-C", ".", "status", "--porcelain">>,
             timeout |-> GitTimeout] >>

\* the test run given a minute instead of 30 seconds
CommandsLongerTests(function_name, request) ==
  CASE function_name = "run_formatter_linter" ->
         << [argv |-> <<"black", OrDefault(request.data.path, ".")>>,
             timeout |-> BlackTimeout],
            [argv |-> <<"pylint", "--ignore=.venv",
                        OrDefault(request.data.path, "src")>>,
             timeout |-> PylintTimeout] >>
    [] function_name = "run_unit_tests" ->
         << [argv |-> <<"python", "-m", "unittest", "discover", "-s",
                        OrDefault(request.data.test_path, "tests")>>,
             timeout |-> 60] >>
    [] function_name = "check_git_status" ->
         << [argv |-> <<"git", "-C", ".", "status", "--porcelain">>,
             timeout |-> GitTimeout] >>

\* the subprocess.run calls of each operation, in launch order
Commands(function_name, request) ==
  CASE function_name = "run_formatter_linter" ->
         << [argv |-> <<"black", OrDefault(request.data.path, ".")>>,
             timeout |-> BlackTimeout],
            [argv |-> <<"pylint", "--ignore=.venv",
                        OrDefault(request.data.path, "src")>>,
             timeout |-> PylintTimeout] >>
    [] function_name = "run_unit_tests" ->
         << [argv |-> <<"python", "-m", "unittest", "discover", "-s",
                        OrDefault(request.data.test_path, "tests")>>,
             timeout |-> UnitTestTimeout] >>
    [] function_name = "check_git_status" ->
         << [argv |-> <<"git", "-C", ".", "status", "--porcelain">>,
             timeout |-> GitTimeout] >>

Completed(out, err, rc) ==
  [kind |-> "completed", stdout |-> out, stderr |-> err, returncode |-> rc,
   msg |-> <<>>]
\* subprocess.TimeoutExpired
TimedOut == [kind |-> "timeout", stdout |-> <<>>, stderr |-> <<>>,
             returncode |-> -1, msg |-> <<>>]
\* any other exception of subprocess.run, with its message
LaunchFailed(m) == [kind |-> "launch_error", stdout |-> <<>>, stderr |-> <<>>,
                    returncode |-> -1, msg |-> m]

NoSuchFile == Join(<<"No", "such", "file">>)

UnitTestOk ==
  <<"..", "\n">> \o Join(<<"Ran", "2", "tests", "in", "0.123s">>)
    \o <<"\n", "\n", "OK", "\n">>
UnitTestFail ==
  Join(<<"FAIL:", "test_a">>) \o <<"\n">>
    \o Join(<<"Ran", "1", "test", "in", "0.123s">>) \o <<"\n">>

GitDirty == <<" ", "M", " ", "src/main.py", "\n", "??", " ", "new_file.py", "\n">>

\* what one run of a program can produce
ProcessOutcomes(prog) ==
  {TimedOut, LaunchFailed(NoSuchFile)} \cup
  CASE prog = "black" ->
         {Completed(Join(<<"reformatted", "a.py">>) \o <<"\n">>, <<>>, 0)}
    [] prog = "pylint" ->
         {Completed(Join(<<"rated", "9.50/10">>) \o <<"\n">>, <<>>, 0)}
    [] prog = "python" ->
         {Completed(<<>>, UnitTestOk, 0), Completed(<<>>, UnitTestFail, 1)}
    [] prog = "git" ->
         {Completed(<<>>, <<>>, 0), Completed(GitDirty, <<>>, 0)}

\* ------------------------------------------------------------ operations
\* a test that looks only at how the text starts
HasErrorAtStart(text) == text # <<>> /\ Head(text) \in ErrorTokens

\* `"Error" in text`
HasError(text) == ContainsError(text)

\* run_formatter_linter: black_output after the first try block
BlackOutput(o) ==
  CASE o.kind = "completed" -> o.stdout \o o.stderr
    [] o.kind = "timeout" ->
         Join(<<"Error:", "black", "timed", "out", "after", "10", "seconds.">>)
    [] o.kind = "launch_error" ->
         Join(<<"Error", "running", "black:">>) \o <<" ">> \o o.msg

\* run_formatter_linter: pylint_output after the second try block
PylintOutput(o) ==
  CASE o.kind = "completed" -> o.stdout \o o.stderr
    [] o.kind = "timeout" ->
         Join(<<"Error:", "pylint", "timed", "out", "after", "10", "seconds.">>)
    [] o.kind = "launch_error" ->
         Join(<<"Error", "running", "pylint:">>) \o <<" ">> \o o.msg

\* a run that drops the lint output when the formatter failed
RunFormatterLinterSuppresses(outs) ==
  LET black_output == BlackOutput(outs[1])
      pylint_output == IF outs[1].kind = "completed" THEN PylintOutput(outs[2])
                       ELSE <<>>
  IN [success |-> ~HasError(black_output) /\ ~HasError(pylint_output),
      black_output |-> Strip(black_output),
      pylint_output |-> Strip(pylint_output)]

\* run_formatter_linter(request), given the outcomes of its two launches
RunFormatterLinter(outs) ==
  LET black_output == BlackOutput(outs[1])
      pylint_output == PylintOutput(outs[2])
  IN [success |-> ~HasError(black_output) /\ ~HasError(pylint_output),
      black_output |-> Strip(black_output),
      pylint_output |-> Strip(pylint_output)]

NumberTokens == {"1", "2"}
DurationTokens == {"0.123s"}

\* re.search(r"(\d+ tests? in [\d.]+s)\)?", output): position of the first
\* match, 0 when there is none
SummaryMatchAt(output, i) ==
  /\ i + 6 <= Len(output)
  /\ output[i] \in NumberTokens
  /\ output[i + 1] = " "
  /\ output[i + 2] \in {"test", "tests"}
  /\ output[i + 3] = " "
  /\ output[i + 4] = "in"
  /\ output[i + 5] = " "
  /\ output[i + 6] \in DurationTokens

SummaryMatch(output) ==
  LET hits == {i \in 1..Len(output) : SummaryMatchAt(output, i)}
  IN IF hits = {} THEN 0 ELSE CHOOSE i \in hits : \A j \in hits : i <= j

\* a scan that looks for failures only, not for errors
IsFailLineOnlyFail(line) == line # <<>> /\ Head(line) = "FAIL:"

\* line.startswith("FAIL:") or line.startswith("ERROR:")
IsFailLine(line) == line # <<>> /\ Head(line) \in {"FAIL:", "ERROR:"}

RECURSIVE FailedTests(_)
FailedTests(lines) ==
  IF lines = <<>> THEN <<>>
  ELSE (IF IsFailLine(Head(lines)) THEN <<Strip(Head(lines))>> ELSE <<>>)
       \o FailedTests(Tail(lines))

\* run_unit_tests(request), given the outcome of its launch
RunUnitTests(outs) ==
  LET o == outs[1]
      output == o.stdout \o o.stderr
      m == SummaryMatch(output)
  IN CASE o.kind = "completed" ->
            [success |-> o.returncode = 0,
             summary |-> IF m # 0 THEN SubSeq(output, m, m + 6)
                         ELSE Join(<<"Tests", "completed.">>),
             failed_tests |-> FailedTests(SplitLines(output))]
       [] o.kind = "timeout" ->
            [success |-> FALSE,
             summary |-> Join(<<"Error:", "unit", "tests", "timed", "out",
                                "after", "30", "seconds.">>),
             failed_tests |-> <<>>]
       [] o.kind = "launch_error" ->
            [success |-> FALSE,
             summary |-> Join(<<"Error", "running", "unit", "tests:">>)
                           \o <<" ">> \o o.msg,
             failed_tests |-> <<>>]

\* a scan that always takes the token after the status code
RECURSIVE UncommittedFilesSecondToken(_)
UncommittedFilesSecondToken(lines) ==
  IF lines = <<>> THEN <<>>
  ELSE LET parts == Split(Strip(Head(lines)))
       IN (IF Len(parts) >= 2 THEN <<parts[2]>> ELSE <<>>)
          \o UncommittedFilesSecondToken(Tail(lines))

RECURSIVE UncommittedFiles(_)
UncommittedFiles(lines) ==
  IF lines = <<>> THEN <<>>
  ELSE LET parts == Split(Strip(Head(lines)))
       IN (IF Len(parts) = 2 THEN <<parts[2]>>
           ELSE IF Len(parts) > 2 THEN <<parts[Len(parts)]>>
           ELSE <<>>)
          \o UncommittedFiles(Tail(lines))

\* a status check that reports a failed launch as a dirty tree
CheckGitStatusFailsDirty(outs) ==
  LET o == outs[1]
      uncommitted_files == UncommittedFiles(SplitLines(o.stdout))
  IN CASE o.kind = "completed" ->
            [uncommitted_files |-> uncommitted_files,
             has_uncommitted |-> Len(uncommitted_files) > 0]
       [] o.kind = "timeout" ->
            [uncommitted_files |-> <<"unknown">>, has_uncommitted |-> TRUE]
       [] o.kind = "launch_error" ->
            [uncommitted_files |-> <<"unknown">>, has_uncommitted |-> TRUE]

\* a status check whose flag says whether git printed anything
CheckGitStatusAnyOutput(outs) ==
  LET o == outs[1]
      uncommitted_files == UncommittedFiles(SplitLines(o.stdout))
  IN CASE o.kind = "completed" ->
            [uncommitted_files |-> uncommitted_files,
             has_uncommitted |-> o.stdout # <<>>]
       [] o.kind = "timeout" ->
            [uncommitted_files |-> <<>>, has_uncommitted |-> FALSE]
       [] o.kind = "launch_error" ->
            [uncommitted_files |-> <<>>, has_uncommitted |-> FALSE]

\* check_git_status(_request), given the outcome of its launch
CheckGitStatus(outs) ==
  LET o == outs[1]
      uncommitted_files == UncommittedFiles(SplitLines(o.stdout))
  IN CASE o.kind = "completed" ->
            [uncommitted_files |-> uncommitted_files,
             has_uncommitted |-> Len(uncommitted_files) > 0]
       [] o.kind = "timeout" ->
            [uncommitted_files |-> <<>>, has_uncommitted |-> FALSE]
       [] o.kind = "launch_error" ->
            [uncommitted_files |-> <<>>, has_uncommitted |-> FALSE]

\* the fields of RunFormatterLinterResponse, RunUnitTestsResponse and
\* CheckGitStatusResponse
ResponseFields(function_name) ==
  CASE function_name = "run_formatter_linter" ->
         {"success", "black_output", "pylint_output"}
    [] function_name = "run_unit_tests" -> {"success", "summary", "failed_tests"}
    [] function_name = "check_git_status" -> {"uncommitted_files", "has_uncommitted"}

\* operations without the catch-all handler: a launch that cannot start
\* leaves the operation as an exception
HandlerLaunchErrorEscapes(function_name, outs) ==
  IF \E i \in DOMAIN outs : outs[i].kind = "launch_error"
  THEN [exception |-> "FileNotFoundError"]
  ELSE CASE function_name = "run_formatter_linter" -> RunFormatterLinter(outs)
         [] function_name = "run_unit_tests" -> RunUnitTests(outs)
         [] function_name = "check_git_status" -> CheckGitStatus(outs)

\* the response an operation returns once all its launches have returned
Handler(function_name, outs) ==
  CASE function_name = "run_formatter_linter" -> RunFormatterLinter(outs)
    [] function_name = "run_unit_tests" -> RunUnitTests(outs)
    [] function_name = "check_git_status" -> CheckGitStatus(outs)

\* --------------------------------------------------------- call_function
\* call_function(function_name, arguments) up to its first process launch:
\* either an exception ("raise") or the validated request and the launches
\* its handler will make ("run")
Raise(type, detail) == [kind |-> "raise", type |-> type, detail |-> detail,
                        request |-> [model |-> None, data |-> <<>>], commands |-> <<>>]

RequestModel(function_name) ==
  CASE function_name = "run_formatter_linter" -> "RunFormatterLinterRequest"
    [] function_name = "run_unit_tests" -> "RunUnitTestsRequest"
    [] function_name = "check_git_status" -> "CheckGitStatusRequest"

\* a dispatcher whose last branch handles every remaining name as
\* check_git_status instead of raising
CallFunctionFallsThrough(function_name, arguments) ==
  LET fn == IF function_name \in RegisteredNames THEN function_name
            ELSE "check_git_status"
  IN IF arguments.kind # "object"
     THEN Raise("TypeError", {})
     ELSE LET c == Coerce(RequestModel(fn), arguments.value)
          IN IF ~c.ok THEN Raise("ValidationError", c.fields)
             ELSE [kind |-> "run", type |-> None, detail |-> {},
                   request |-> c.value,
                   commands |-> Commands(fn, c.value)]

\* a dispatcher whose error does not say which name was unknown
CallFunctionUnnamedError(function_name, arguments) ==
  IF function_name \in RegisteredNames
  THEN IF arguments.kind # "object"
       THEN Raise("TypeError", {})
       ELSE LET c == Coerce(RequestModel(function_name), arguments.value)
            IN IF ~c.ok THEN Raise("ValidationError", c.fields)
               ELSE [kind |-> "run", type |-> None, detail |-> {},
                     request |-> c.value,
                     commands |-> Commands(function_name, c.value)]
  ELSE Raise("ValueError", {})

CallFunction(function_name, arguments) ==
  IF function_name \in RegisteredNames
  THEN IF arguments.kind # "object"
       THEN Raise("TypeError", {})
       ELSE LET c == Coerce(RequestModel(function_name), arguments.value)
            IN IF ~c.ok THEN Raise("ValidationError", c.fields)
               ELSE [kind |-> "run", type |-> None, detail |-> {},
                     request |-> c.value,
                     commands |-> Commands(function_name, c.value)]
  ELSE Raise("ValueError", {function_name})

\* ------------------------------------------------- run_openai_chat_loop
VARIABLES
  pc,             \* where the loop is: "input", "await_intent", "executing",
                  \* "done" (returned) or "raised" (left by an exception)
  messages,       \* the conversation
  message,        \* response.choices[0].message of the latest response
  finish_reason,  \* response.choices[0].finish_reason of the latest response
  func_name,      \* the operation being executed
  request,        \* the request model call_function built for it
  outs,           \* outcomes of the launches of the latest operation so far
  exc,            \* the exception that left the loop
  launchLog,      \* every subprocess.run call of the session, in order
  askCount,       \* calls of openai.chat.completions.create
  dispatchCount,  \* calls of call_function
  turnAsks,       \* intent-source calls since the latest user turn
  turnDispatches, \* call_function calls since the latest user turn
  turnRequests,   \* names of the function calls requested since the latest user turn
  requestCount,   \* function calls requested in the session
  turns,          \* user turns accepted
  user_input,     \* the latest line the operator typed at the prompt
  response,       \* what the latest direct call of an operation returned
  elapsed,        \* seconds that call has spent waiting for its processes
  function_schemas,  \* the schemas the loop was given and sends with each request
  \* BugReportAgent
  state,          \* self.state: the report collected so far, as a dict
  parsed,         \* what openai.responses.parse did in the latest turn
  bug_report,     \* the report the latest process_turn returned
  prompt,         \* the message the latest process_turn returned
  is_complete,    \* the flag the latest process_turn returned
  \* FileSearchAgent
  files,          \* self.files: file id -> (filename, content)
  question,       \* the arguments of the answer_question call in progress
  chunks,         \* the chunks of the file's content
  partial_answers,  \* the answers to the chunks so far
  prompts,        \* the completion requests issued, in order
  answer          \* what answer_question returned

vars == <<pc, messages, message, finish_reason, func_name, request, outs, exc,
          launchLog, askCount, dispatchCount, turnAsks, turnDispatches,
          turnRequests, requestCount, turns, user_input, response, elapsed,
          function_schemas, state, parsed, bug_report, prompt, is_complete,
          files, question, chunks, partial_answers, prompts, answer>>

bugVars == <<state, parsed, bug_report, prompt, is_complete>>
fileVars == <<files, question, chunks, partial_answers, prompts, answer>>

\* the two other agents, which DevToolsAgent never touches
otherAgents == <<bugVars, fileVars>>

\* the state of a direct call of an operation, which the chat loop leaves alone
callVars == <<response, elapsed>>

SystemPrompt == <<"You are a helpful developer assistant.">>

NoCall == [name |-> None, arguments |-> <<>>]
NoMessage == [function_call |-> NoCall, content |-> <<>>]
NoRequest == [model |-> None, data |-> <<>>]
NoException == [type |-> None, detail |-> {}]
NoResponse == [none |-> TRUE]

\* what the operator can type at the prompt
UserInputs == {<<"exit">>, <<" ", "EXIT", " ">>, <<"format", " ", "my", " ", "code">>}

\* the raw argument texts the intent source can send
ArgTexts ==
  { <<P("{"), P("}")>>,
    <<P("{"), S("path"), P(":"), S("src"), P("}")>>,
    <<P("{"), S("path"), P(":"), N("123"), P("}")>>,
    <<P("{"), S("test_path"), P(":"), N("7"), P("}")>>,
    <<P("{"), S("path")>>,
    <<P("["), P("]")>> }

\* the operation names the intent source can ask for
RequestedNames == RegisteredNames \cup {"not_a_function"}

FunctionCalls == [name : RequestedNames, arguments : ArgTexts]

PlainContents == {<<"All", " ", "done!">>}
FinishReasons == {"stop", "length"}

SystemTurn == [role |-> "system", content |-> SystemPrompt]
UserTurn(text) == [role |-> "user", content |-> text]
AssistantTurn(text) == [role |-> "assistant", content |-> text]

\* json.dumps(result.dict(), indent=2)
ResultJson(result) == [json |-> result]

\* a function turn filed under a fixed name instead of the operation's
FunctionTurnAnonymous(name, result) ==
  [role |-> "function", name |-> "function", content |-> ResultJson(result)]

\* a function turn tagged as an assistant turn
FunctionTurnAsAssistant(name, result) ==
  [role |-> "assistant", name |-> name, content |-> ResultJson(result)]

FunctionTurn(name, result) ==
  [role |-> "function", name |-> name, content |-> ResultJson(result)]

\* an append that loses function turns
AppendTurnDropsResult(msgs, turn) ==
  IF turn.role = "function" THEN msgs ELSE Append(msgs, turn)

\* an insert that keeps only the system turn in front of the new turn's place
AppendTurnInFront(msgs, turn) == <<Head(msgs), turn>> \o Tail(msgs)

\* messages.append(turn)
AppendTurn(msgs, turn) == Append(msgs, turn)

\* the keyword compared as typed
IsExitVerbatim(line) == line = <<"exit">>

\* user_input.strip().lower() == "exit"
IsExit(line) == LowerText(Strip(line)) = <<"exit">>

\* BugReportAgent.__init__ (self.state = {}), before any turn
EmptyState == [f \in {} |-> None]
NoParse == [kind |-> "none"]
NoReport == [none |-> TRUE]
NoPrompt == [kind |-> "none"]

BugIdle ==
  /\ state = EmptyState
  /\ parsed = NoParse
  /\ bug_report = NoReport
  /\ prompt = NoPrompt
  /\ is_complete = FALSE

\* FileSearchAgent.__init__ (self.files = {}), before any call
NoQuestion == [file_id |-> None, chunk_size |-> 0]

FileIdle ==
  /\ files = [f \in {} |-> None]
  /\ question = NoQuestion
  /\ chunks = <<>>
  /\ partial_answers = <<>>
  /\ prompts = <<>>
  /\ answer = None

Init ==
  /\ pc = "input"
  /\ messages = <<SystemTurn>>
  /\ message = NoMessage
  /\ finish_reason = None
  /\ func_name = None
  /\ request = NoRequest
  /\ outs = <<>>
  /\ exc = NoException
  /\ launchLog = <<>>
  /\ askCount = 0
  /\ dispatchCount = 0
  /\ turnAsks = 0
  /\ turnDispatches = 0
  /\ turnRequests = <<>>
  /\ requestCount = 0
  /\ turns = 0
  /\ user_input = <<>>
  /\ response = NoResponse
  /\ elapsed = 0
  /\ function_schemas = FunctionSchemas
  /\ BugIdle
  /\ FileIdle

\* an exit taken wherever the loop is, not only at the prompt
ReadExitAnywhere(line) ==
  /\ pc \in {"input", "await_intent", "executing"}
  /\ IsExit(line)
  /\ user_input' = line
  /\ pc' = "done"
  /\ UNCHANGED callVars
  /\ UNCHANGED function_schemas
  /\ UNCHANGED otherAgents
  /\ UNCHANGED <<messages, message, finish_reason, func_name, request, outs,
                 exc, launchLog, askCount, dispatchCount, turnAsks,
                 turnDispatches, turnRequests, requestCount, turns>>

\* lines 215-217: the operator types the exit keyword
ReadExit(line) ==
  /\ pc = "input"
  /\ IsExit(line)
  /\ user_input' = line
  /\ pc' = "done"
  /\ UNCHANGED callVars
  /\ UNCHANGED function_schemas
  /\ UNCHANGED otherAgents
  /\ UNCHANGED <<messages, message, finish_reason, func_name, request, outs,
                 exc, launchLog, askCount, dispatchCount, turnAsks,
                 turnDispatches, turnRequests, requestCount, turns>>

\* lines 215-224: the operator types a request; it is appended and the intent
\* source is asked
ReadUserTurn(line) ==
  /\ pc = "input"
  /\ ~IsExit(line)
  /\ turns < MaxTurns
  /\ user_input' = line
  /\ UNCHANGED callVars
  /\ UNCHANGED function_schemas
  /\ UNCHANGED otherAgents
  /\ messages' = AppendTurn(messages, UserTurn(line))
  /\ askCount' = askCount + 1
  /\ turnAsks' = 1
  /\ turnDispatches' = 0
  /\ turnRequests' = <<>>
  /\ turns' = turns + 1
  /\ pc' = "await_intent"
  /\ UNCHANGED <<message, finish_reason, func_name, request, outs, exc,
                 launchLog, dispatchCount, requestCount>>

\* lines 225-233: the intent source answers with a function call; the loop
\* parses the arguments and enters call_function, up to the first launch
IntentReturnsCall(fc) ==
  /\ pc = "await_intent"
  /\ requestCount < MaxInvocations
  /\ requestCount' = requestCount + 1
  /\ message' = [function_call |-> fc, content |-> <<>>]
  /\ finish_reason' = "function_call"
  /\ turnRequests' = Append(turnRequests, fc.name)
  /\ LET args == JsonLoads(fc.arguments)
         call == CallFunction(fc.name, args)
     IN IF args.kind = "error"
        THEN /\ pc' = "raised"
             /\ exc' = [type |-> "JSONDecodeError", detail |-> {}]
             /\ UNCHANGED <<func_name, request, outs, launchLog,
                            dispatchCount, turnDispatches>>
        ELSE /\ dispatchCount' = dispatchCount + 1
             /\ turnDispatches' = turnDispatches + 1
             /\ IF call.kind = "raise"
                THEN /\ pc' = "raised"
                     /\ exc' = [type |-> call.type, detail |-> call.detail]
                     /\ UNCHANGED <<func_name, request, outs, launchLog>>
                ELSE /\ pc' = "executing"
                     /\ func_name' = fc.name
                     /\ request' = call.request
                     /\ outs' = <<>>
                     /\ launchLog' = Append(launchLog, call.commands[1])
                     /\ exc' = exc
  /\ UNCHANGED <<messages, askCount, turnAsks, turns, user_input>>
  /\ UNCHANGED callVars
  /\ UNCHANGED function_schemas
  /\ UNCHANGED otherAgents

\* the running process returns and the operation launches its next one
\* (run_formatter_linter: black has returned, pylint is launched)
LaunchNext(o) ==
  /\ pc = "executing"
  /\ LET cmds == Commands(func_name, request)
         k == Len(outs) + 1
     IN /\ o \in ProcessOutcomes(cmds[k].argv[1])
        /\ k < Len(cmds)
        /\ outs' = Append(outs, o)
        /\ launchLog' = Append(launchLog, cmds[k + 1])
  /\ UNCHANGED <<pc, messages, message, finish_reason, func_name, request, exc,
                 askCount, dispatchCount, turnAsks, turnDispatches,
                 turnRequests, requestCount, turns, user_input>>
  /\ UNCHANGED callVars
  /\ UNCHANGED function_schemas
  /\ UNCHANGED otherAgents

\* lines 233-259: the last process of the operation returns; the result is
\* appended as a function turn and the intent source is asked again
CompleteOperation(o) ==
  /\ pc = "executing"
  /\ LET cmds == Commands(func_name, request)
         k == Len(outs) + 1
     IN /\ o \in ProcessOutcomes(cmds[k].argv[1])
        /\ k = Len(cmds)
        /\ messages' = AppendTurn(messages,
                         FunctionTurn(func_name, Handler(func_name, Append(outs, o))))
        /\ outs' = Append(outs, o)
  /\ request' = NoRequest
  /\ askCount' = askCount + 1
  /\ turnAsks' = turnAsks + 1
  /\ pc' = "await_intent"
  /\ UNCHANGED <<message, finish_reason, func_name, exc, launchLog, dispatchCount,
                 turnDispatches, turnRequests, requestCount, turns, user_input>>
  /\ UNCHANGED callVars
  /\ UNCHANGED function_schemas
  /\ UNCHANGED otherAgents

\* a loop that leaves on "stop" before it appends the assistant turn
IntentReturnsPlainStopFirst(content, reason) ==
  /\ pc = "await_intent"
  /\ message' = [function_call |-> NoCall, content |-> content]
  /\ finish_reason' = reason
  /\ messages' = IF reason = "stop" THEN messages
                 ELSE AppendTurn(messages, AssistantTurn(content))
  /\ pc' = IF reason = "stop" THEN "done" ELSE "input"
  /\ UNCHANGED <<func_name, request, outs, exc, launchLog, askCount,
                 dispatchCount, turnAsks, turnDispatches, turnRequests,
                 requestCount, turns, user_input>>
  /\ UNCHANGED callVars
  /\ UNCHANGED function_schemas
  /\ UNCHANGED otherAgents

\* a loop that never looks at finish_reason
IntentReturnsPlainIgnoresStop(content, reason) ==
  /\ pc = "await_intent"
  /\ message' = [function_call |-> NoCall, content |-> content]
  /\ finish_reason' = reason
  /\ messages' = AppendTurn(messages, AssistantTurn(content))
  /\ pc' = "input"
  /\ UNCHANGED <<func_name, request, outs, exc, launchLog, askCount,
                 dispatchCount, turnAsks, turnDispatches, turnRequests,
                 requestCount, turns, user_input>>
  /\ UNCHANGED callVars
  /\ UNCHANGED function_schemas
  /\ UNCHANGED otherAgents

\* lines 225-268: the intent source answers in plain text; it is printed and
\* appended, and the loop ends on "stop" or waits for the next user turn
IntentReturnsPlain(content, reason) ==
  /\ pc = "await_intent"
  /\ message' = [function_call |-> NoCall, content |-> content]
  /\ finish_reason' = reason
  /\ messages' = AppendTurn(messages, AssistantTurn(content))
  /\ pc' = IF reason = "stop" THEN "done" ELSE "input"
  /\ UNCHANGED <<func_name, request, outs, exc, launchLog, askCount,
                 dispatchCount, turnAsks, turnDispatches, turnRequests,
                 requestCount, turns, user_input>>
  /\ UNCHANGED callVars
  /\ UNCHANGED function_schemas
  /\ UNCHANGED otherAgents

AllOutcomes ==
  UNION {ProcessOutcomes(prog) : prog \in {"black", "pylint", "python", "git"}}

Next ==
  \/ \E u \in UserInputs : ReadExit(u)
  \/ \E u \in UserInputs : ReadUserTurn(u)
  \/ \E fc \in FunctionCalls : IntentReturnsCall(fc)
  \/ \E o \in AllOutcomes : LaunchNext(o)
  \/ \E o \in AllOutcomes : CompleteOperation(o)
  \/ \E c \in PlainContents, r \in FinishReasons : IntentReturnsPlain(c, r)

Spec == Init /\ [][Next]_vars

\* openai.chat.completions.create returns: the intent source answers
IntentAnswers ==
  \/ \E fc \in FunctionCalls : IntentReturnsCall(fc)
  \/ \E c \in PlainContents, r \in FinishReasons : IntentReturnsPlain(c, r)

\* subprocess.run returns: the process ended or hit its deadline
ProcessEnds ==
  \/ \E o \in AllOutcomes : LaunchNext(o)
  \/ \E o \in AllOutcomes : CompleteOperation(o)

\* the loop with an intent source that answers every request and processes
\* that end or time out; the operator may stay silent at the prompt
LiveSpec == Spec /\ WF_vars(IntentAnswers) /\ WF_vars(ProcessEnds)

\* ------------------------------------------- direct calls of operations
\* The unit tests call each operation on its own, with subprocess.run
\* replaced by a stub that returns a transcript, times out or fails.

\* the longest transcript, in lines
MaxLines == 2

\* lines a unittest run writes
TestLines ==
  { Join(<<"FAIL:", "test_a">>),
    Join(<<"ERROR:", "test_b">>) \o <<" ">>,
    <<" ">> \o Join(<<"FAIL:", "indented">>),
    <<"ok">>,
    Join(<<"Ran", "2", "tests", "in", "0.123s">>),
    <<>> }

\* lines `git status --porcelain` writes
GitLines ==
  { <<" ">> \o Join(<<"M", "src/main.py">>),
    Join(<<"??", "new_file.py">>),
    <<"R", " ", " ">> \o Join(<<"old.py", "->", "new.py">>),
    <<"stray">>,
    <<" ">>,
    <<>> }

LineSeqs(lines) == UNION {[1..n -> lines] : n \in 0..MaxLines}

\* a transcript: every line followed by its line end
RECURSIVE JoinLines(_)
JoinLines(lines) ==
  IF lines = <<>> THEN <<>>
  ELSE Head(lines) \o <<"\n">> \o JoinLines(Tail(lines))

\* what the stub of subprocess.run returns for a program
StubOutcomes(prog) ==
  ProcessOutcomes(prog) \cup
  CASE prog = "black" ->
         {Completed(<<>>, Join(<<"Error:", "cannot", "parse", "a.py">>) \o <<"\n">>, 123)}
    [] prog = "pylint" ->
         {Completed(Join(<<"a.py:1:", "SyntaxError">>) \o <<"\n">>, <<>>, 2)}
    [] prog = "python" ->
         {Completed(<<>>, JoinLines(l), rc) : l \in LineSeqs(TestLines), rc \in {0, 1}}
    [] prog = "git" ->
         {Completed(JoinLines(l), <<>>, 0) : l \in LineSeqs(GitLines)}

AllStubOutcomes ==
  UNION {StubOutcomes(prog) : prog \in {"black", "pylint", "python", "git"}}

\* seconds subprocess.run(..., timeout=t) can take before it returns or raises
Durations(cmd, o) ==
  CASE o.kind = "timeout" -> {cmd.timeout}
    [] o.kind = "launch_error" -> {0}
    [] o.kind = "completed" -> {1, cmd.timeout - 1}

\* the request objects the tests pass
DirectRequests(function_name) ==
  { Coerce(RequestModel(function_name), a).value :
      a \in { EmptyMapping,
              [EmptyMapping EXCEPT !["path"] = JStr("src")],
              [EmptyMapping EXCEPT !["test_path"] = JStr("tests")] } }

AllDirectRequests == UNION {DirectRequests(n) : n \in RegisteredNames}

\* an exception that leaves an operation instead of a response
IsException(r) == "exception" \in DOMAIN r

DirectInit ==
  /\ pc = "idle"
  /\ messages = <<SystemTurn>>
  /\ message = NoMessage
  /\ finish_reason = None
  /\ func_name = None
  /\ request = NoRequest
  /\ outs = <<>>
  /\ exc = NoException
  /\ launchLog = <<>>
  /\ askCount = 0
  /\ dispatchCount = 0
  /\ turnAsks = 0
  /\ turnDispatches = 0
  /\ turnRequests = <<>>
  /\ requestCount = 0
  /\ turns = 0
  /\ user_input = <<>>
  /\ response = NoResponse
  /\ elapsed = 0
  /\ function_schemas = <<>>
  /\ BugIdle
  /\ FileIdle

loopVars == <<messages, message, finish_reason, askCount, dispatchCount, turnAsks,
              turnDispatches, turnRequests, requestCount, turns, user_input,
              function_schemas>>

\* agent.<operation>(request): the operation makes its first launch
CallOperation(function_name, req) ==
  /\ pc = "idle"
  /\ req \in DirectRequests(function_name)
  /\ func_name' = function_name
  /\ request' = req
  /\ outs' = <<>>
  /\ launchLog' = <<Commands(function_name, req)[1]>>
  /\ elapsed' = 0
  /\ pc' = "running"
  /\ UNCHANGED <<response, exc>>
  /\ UNCHANGED loopVars
  /\ UNCHANGED otherAgents

\* a launch that is not the last one returns after some seconds, and the
\* operation makes its next launch
StubReturns(o) ==
  /\ pc = "running"
  /\ LET cmds == Commands(func_name, request)
         k == Len(outs) + 1
     IN /\ k < Len(cmds)
        /\ o \in StubOutcomes(cmds[k].argv[1])
        /\ outs' = Append(outs, o)
        /\ launchLog' = Append(launchLog, cmds[k + 1])
        /\ \E d \in Durations(cmds[k], o) : elapsed' = elapsed + d
  /\ UNCHANGED <<pc, func_name, request, response, exc>>
  /\ UNCHANGED loopVars
  /\ UNCHANGED otherAgents

\* the last launch returns after some seconds, and the operation returns
OperationReturns(o) ==
  /\ pc = "running"
  /\ LET cmds == Commands(func_name, request)
         k == Len(outs) + 1
         r == Handler(func_name, Append(outs, o))
     IN /\ k = Len(cmds)
        /\ o \in StubOutcomes(cmds[k].argv[1])
        /\ outs' = Append(outs, o)
        /\ \E d \in Durations(cmds[k], o) : elapsed' = elapsed + d
        /\ IF IsException(r)
           THEN /\ pc' = "raised"
                /\ exc' = [type |-> r.exception, detail |-> {}]
                /\ UNCHANGED response
           ELSE /\ pc' = "returned"
                /\ response' = r
                /\ UNCHANGED exc
  /\ UNCHANGED <<func_name, request, launchLog>>
  /\ UNCHANGED loopVars
  /\ UNCHANGED otherAgents

DirectNext ==
  \/ \E n \in RegisteredNames, req \in AllDirectRequests : CallOperation(n, req)
  \/ \E o \in AllStubOutcomes : StubReturns(o)
  \/ \E o \in AllStubOutcomes : OperationReturns(o)

DirectSpec == DirectInit /\ [][DirectNext]_vars

\* ------------------------------------------------------------ properties
IsPrefix(a, b) == Len(a) <= Len(b) /\ SubSeq(b, 1, Len(a)) = a

Roles(msgs) == [i \in 1..Len(msgs) |-> msgs[i].role]

IsToolResult(m) == m.role = "function"

ToolResults(msgs) == SelectSeq(msgs, IsToolResult)

NumToolResults(msgs) == Len(ToolResults(msgs))

ToolResultNames(msgs) ==
  LET rs == ToolResults(msgs) IN [i \in 1..Len(rs) |-> rs[i].name]

\* the turns appended since (and without) the latest user turn
TurnMessages(msgs) ==
  LET users == {i \in 1..Len(msgs) : msgs[i].role = "user"}
      last == IF users = {} THEN 0
              ELSE CHOOSE i \in users : \A j \in users : j <= i
  IN SubSeq(msgs, last + 1, Len(msgs))

Programs(log) == [i \in 1..Len(log) |-> log[i].argv[1]]

\* the user turn has been answered in plain text
TurnAnswered ==
  /\ pc \in {"input", "done"}
  /\ turns > 0
  /\ messages[Len(messages)].role = "assistant"

\* C1: a session of one user turn in which the intent source asks for
\* run_formatter_linter, then check_git_status, then answers in plain text
C1_Session ==
  /\ TurnAnswered
  /\ turns = 1
  /\ turnRequests = <<"run_formatter_linter", "check_git_status">>

C1_Turns ==
  /\ Roles(messages) = <<"system", "user", "function", "function", "assistant">>
  /\ messages[3].name = "run_formatter_linter"
  /\ messages[4].name = "check_git_status"
  /\ dispatchCount = 2
  /\ askCount = 3

\* C1 (amended): in that session the loop makes exactly three process
\* launches (black and pylint for run_formatter_linter, then git), appends
\* exactly two tool-result turns in request order, then one plain assistant
\* turn, and attempts no further invocation.
C1_ThreeLaunches ==
  C1_Session =>
    /\ Programs(launchLog) = <<"black", "pylint", "git">>
    /\ C1_Turns

\* C1 as stated: exactly two process launches in that session.
C1_Original ==
  C1_Session =>
    /\ Len(launchLog) = 2
    /\ C1_Turns

C1_Witness ==
  /\ C1_Session
  /\ pc = "done"
  /\ finish_reason = "stop"
  /\ Len(launchLog) = 3

\* C2: when a user turn has been answered after k invocation requests, the
\* intent source was called exactly k+1 times and call_function exactly k
\* times in that turn, and the k tool-result turns stand in request order.
C2_ChainCounts ==
  TurnAnswered =>
    /\ turnAsks = Len(turnRequests) + 1
    /\ turnDispatches = Len(turnRequests)
    /\ ToolResultNames(TurnMessages(messages)) = turnRequests

C2_Witness ==
  /\ TurnAnswered
  /\ Len(turnRequests) = MaxInvocations
  /\ turnRequests[1] # turnRequests[2]

\* C3: whenever the intent source is being asked, every invocation request
\* it has made has exactly one tool-result turn (the i-th result answers the
\* i-th request), and at no time are there more results than requests.
C3_OneResultPerRequest ==
  /\ NumToolResults(messages) <= requestCount
  /\ pc = "await_intent" =>
       /\ NumToolResults(messages) = requestCount
       /\ Len(ToolResults(TurnMessages(messages))) = Len(turnRequests)
       /\ \A i \in 1..Len(turnRequests) :
            ToolResults(TurnMessages(messages))[i].name = turnRequests[i]

C3_Witness ==
  /\ pc = "await_intent"
  /\ requestCount = 2
  /\ NumToolResults(messages) = 2

\* C4: the conversation is append-only: in every step the old sequence of
\* turns is a prefix of the new one.
C4_AppendOnly == [][IsPrefix(messages, messages')]_vars

C4_Witness ==
  /\ Len(messages) >= 5
  /\ NumToolResults(messages) >= 1
  /\ turns = 2

\* C5: call_function is entered only when every earlier invocation has its
\* outcome in the conversation and no operation is executing.
C5_OneAtATime ==
  [][dispatchCount' # dispatchCount =>
       /\ pc # "executing"
       /\ NumToolResults(messages) = dispatchCount
       /\ dispatchCount' = dispatchCount + 1]_vars

C5_Witness ==
  /\ pc = "executing"
  /\ dispatchCount = 2
  /\ NumToolResults(messages) = 1

Last(seq) == seq[Len(seq)]

ParsedArguments(fc) == JsonLoads(fc.arguments)

\* call_function has been entered with a name it does not know
UnknownCalled(fc) ==
  /\ fc.name \in RequestedNames \ RegisteredNames
  /\ ParsedArguments(fc).kind # "error"

\* the content of a tool-result turn reports a failure
MarkedFailed(content) ==
  /\ "success" \in DOMAIN content.json
  /\ content.json.success = FALSE

\* C6 (amended): for a name that is not registered, call_function returns no
\* outcome value: it raises a ValueError naming that name to its caller.
C6_UnknownRaisesValueError ==
  UnknownCalled(message.function_call) =>
    /\ pc = "raised"
    /\ exc.type = "ValueError"
    /\ exc.detail = {message.function_call.name}

\* C6 as stated: for a name that is not registered the caller gets back an
\* outcome with success = false instead of an exception.
C6_Original ==
  UnknownCalled(message.function_call) =>
    /\ pc # "raised"
    /\ Last(messages).role = "function"
    /\ MarkedFailed(Last(messages).content)

C6_Witness ==
  /\ UnknownCalled(message.function_call)
  /\ ParsedArguments(message.function_call).kind = "object"
  /\ exc.type = "ValueError"

\* C7: for a name outside the three registered ones, whatever the raw
\* arguments, call_function fails at once with a ValueError naming it,
\* builds no request model and launches no process.
C7_UnknownFailsFast ==
  [][(pc = "await_intent" /\ UnknownCalled(message'.function_call)) =>
       /\ pc' = "raised"
       /\ exc'.type = "ValueError"
       /\ message'.function_call.name \in exc'.detail
       /\ request' = NoRequest
       /\ launchLog' = launchLog
       /\ dispatchCount' = dispatchCount + 1]_vars

C7_Witness ==
  /\ pc = "raised"
  /\ message.function_call.name = "not_a_function"
  /\ ParsedArguments(message.function_call).kind = "array"
  /\ dispatchCount = 2
  /\ Len(launchLog) > 0

\* the request names no registered operation, or its argument text does not
\* parse to a mapping, or the mapping fails the operation's request model
InvalidRequest(fc) ==
  \/ fc.name \notin RegisteredNames
  \/ ParsedArguments(fc).kind # "object"
  \/ ~Coerce(RequestModel(fc.name), ParsedArguments(fc).value).ok

\* C8: an invalid request of the intent source is answered by a tool-result
\* turn and the intent source is asked again; no exception leaves the loop.
C8_InvalidRequestSurfaced ==
  (message.function_call # NoCall /\ InvalidRequest(message.function_call)) =>
    /\ pc = "await_intent"
    /\ exc = NoException
    /\ Last(messages).role = "function"
    /\ Last(messages).name = message.function_call.name

FailedLaunch(os) == \E i \in 1..Len(os) : os[i].kind \in {"timeout", "launch_error"}

\* C9: when a launch of the invoked operation timed out or failed, the
\* operation's return still appends exactly one tool-result turn, marked as
\* failed, and the intent source is asked again.
C9_FailedLaunchSurfaced ==
  [][(pc = "executing" /\ pc' # "executing" /\ FailedLaunch(outs')) =>
       /\ pc' = "await_intent"
       /\ askCount' = askCount + 1
       /\ Len(messages') = Len(messages) + 1
       /\ IsPrefix(messages, messages')
       /\ Last(messages').role = "function"
       /\ MarkedFailed(Last(messages').content)]_vars

\* the fields of the operation's request model that carry a wrong-typed value
OffendingFields(fc) ==
  {f \in ModelFields(RequestModel(fc.name)) : ParsedArguments(fc).value[f].t = "int"}

ViolatesContract(fc) ==
  /\ fc.name \in RegisteredNames
  /\ ParsedArguments(fc).kind = "object"
  /\ OffendingFields(fc) # {}

\* C10: for a registered operation and an argument mapping with a
\* wrong-typed field, dispatch launches no process and fails with a
\* ValidationError that names exactly the offending field.
C10_ValidationNamesField ==
  [][(pc = "await_intent" /\ ViolatesContract(message'.function_call)) =>
       /\ launchLog' = launchLog
       /\ pc' = "raised"
       /\ exc'.type = "ValidationError"
       /\ exc'.detail = OffendingFields(message'.function_call)]_vars

C10_Witness ==
  /\ pc = "raised"
  /\ exc.type = "ValidationError"
  /\ exc.detail = {"test_path"}
  /\ message.function_call.name = "run_unit_tests"

\* ---------------------------------------- properties of the operations
Range(f) == {f[i] : i \in DOMAIN f}

IsInfix(a, b) ==
  \E i \in 0..(Len(b) - Len(a)) : SubSeq(b, i + 1, i + Len(a)) = a

TimedOutLaunches == {i \in DOMAIN outs : outs[i].kind = "timeout"}
FailedLaunches == {i \in DOMAIN outs : outs[i].kind = "launch_error"}

\* every piece of text a response carries
ResponseTexts(r) ==
  {r[f] : f \in DOMAIN r \cap {"black_output", "pylint_output", "summary"}}

SecondsToken(t) == CASE t = 10 -> "10" [] t = 30 -> "30"

\* the text says that something timed out after t seconds
StatesTimeout(text, t) ==
  IsInfix(<<"timed", " ", "out", " ", "after", " ", SecondsToken(t), " ", "seconds.">>,
          text)

ReportsFailure(r) == "success" \in DOMAIN r /\ r.success = FALSE

\* C11: an operation one of whose launches exceeded its deadline returns
\* a response with success = false whose text states the timeout duration.
C11_TimeoutReported ==
  (pc = "returned" /\ TimedOutLaunches # {}) =>
    /\ ReportsFailure(response)
    /\ \A i \in TimedOutLaunches :
         \E text \in ResponseTexts(response) :
           StatesTimeout(text, launchLog[i].timeout)

\* C12: an operation one of whose launches could not be started returns a
\* response with success = false that carries the launch error's message.
C12_LaunchErrorReported ==
  (pc = "returned" /\ FailedLaunches # {}) =>
    /\ ReportsFailure(response)
    /\ \A i \in FailedLaunches :
         \E text \in ResponseTexts(response) : IsInfix(outs[i].msg, text)

\* C13: whatever each launch does (completes with any exit code, times out,
\* fails to start), the operation returns a response of its response model
\* and no exception leaves it.
C13_AlwaysResponds ==
  /\ pc # "raised"
  /\ exc = NoException
  /\ pc = "returned" => DOMAIN response = ResponseFields(func_name)

C13_Witness ==
  /\ pc = "returned"
  /\ func_name = "run_formatter_linter"
  /\ outs[1].kind = "launch_error"
  /\ outs[2].kind = "timeout"

NonBlank(tok) == ~IsSpace(tok)
WordsOf(line) == SelectSeq(line, NonBlank)

StartsWithMarker(line) == Len(line) > 0 /\ line[1] \in {"FAIL:", "ERROR:"}

\* the lines of a transcript that start with FAIL: or ERROR:, trimmed
RECURSIVE MarkedLines(_)
MarkedLines(lines) ==
  IF lines = <<>> THEN <<>>
  ELSE (IF StartsWithMarker(Head(lines)) THEN <<Join(WordsOf(Head(lines)))>> ELSE <<>>)
       \o MarkedLines(Tail(lines))

UnitTestsCompleted ==
  pc = "returned" /\ func_name = "run_unit_tests" /\ outs[1].kind = "completed"

ListsMarkedLines ==
  \A l \in LineSeqs(TestLines) :
    outs[1].stderr = JoinLines(l) => response.failed_tests = MarkedLines(l)

\* C14: run_unit_tests lists in failed_tests exactly the transcript lines
\* that start with FAIL: or ERROR:, in transcript order, and success is
\* false exactly when the test runner's exit code is not zero.
C14_FailedTestsListed ==
  UnitTestsCompleted =>
    /\ ListsMarkedLines
    /\ response.success = (outs[1].returncode = 0)

\* C14 as stated: the same list, and success is false whenever the list
\* is not empty.
C14_Original ==
  UnitTestsCompleted =>
    /\ ListsMarkedLines
    /\ response.failed_tests # <<>> => response.success = FALSE

C14_Witness ==
  /\ UnitTestsCompleted
  /\ outs[1].returncode = 0
  /\ response.failed_tests = <<Join(<<"ERROR:", "test_b">>), Join(<<"FAIL:", "test_a">>)>>
  /\ response.success = TRUE

\* the last word of every line that has at least `least` words
RECURSIVE LastWords(_, _)
LastWords(lines, least) ==
  IF lines = <<>> THEN <<>>
  ELSE LET words == WordsOf(Head(lines))
       IN (IF Len(words) >= least /\ Len(words) > 0
           THEN <<words[Len(words)]>> ELSE <<>>)
          \o LastWords(Tail(lines), least)

GitStatusCompleted ==
  pc = "returned" /\ func_name = "check_git_status" /\ outs[1].kind = "completed"

\* C15: check_git_status reports the last whitespace-separated token of
\* each transcript line that has at least two tokens, one entry per such
\* line in transcript order; an empty transcript gives an empty list.
C15_LastTokenPerEntry ==
  GitStatusCompleted =>
    \A l \in LineSeqs(GitLines) :
      outs[1].stdout = JoinLines(l) => response.uncommitted_files = LastWords(l, 2)

\* C15 as stated: the last token of each non-blank line.
C15_Original ==
  GitStatusCompleted =>
    \A l \in LineSeqs(GitLines) :
      outs[1].stdout = JoinLines(l) => response.uncommitted_files = LastWords(l, 1)

C15_Witness ==
  /\ GitStatusCompleted
  /\ outs[1].stdout = JoinLines(<< <<"stray">>,
                                   <<"R", " ", " ">> \o Join(<<"old.py", "->", "new.py">>) >>)
  /\ response.uncommitted_files = <<"new.py">>

\* the longest an operation waits for its processes, in seconds: the sum
\* of the deadlines of its launches
WaitBound(function_name) ==
  CASE function_name = "run_formatter_linter" -> 20
    [] function_name = "run_unit_tests" -> 30
    [] function_name = "check_git_status" -> 10

\* the bound the operation is said to have
StatedBound(function_name) ==
  CASE function_name = "run_formatter_linter" -> 10
    [] function_name = "run_unit_tests" -> 30
    [] function_name = "check_git_status" -> 10

FiniteDeadlines == \A i \in DOMAIN launchLog : launchLog[i].timeout \in 1..30

\* C19: every launch has a finite deadline (10 s for black, pylint and
\* git, 30 s for the test run), and an operation waits for its processes
\* no longer than the sum of its launches' deadlines: 20 s for
\* run_formatter_linter, 30 s for run_unit_tests, 10 s for check_git_status.
C19_BoundedWait ==
  /\ FiniteDeadlines
  /\ pc \in {"running", "returned"} => elapsed <= WaitBound(func_name)

\* C19 as stated: run_formatter_linter returns within 10 s.
C19_Original ==
  /\ FiniteDeadlines
  /\ pc \in {"running", "returned"} => elapsed <= StatedBound(func_name)

C19_Witness ==
  /\ pc = "returned"
  /\ func_name = "run_formatter_linter"
  /\ TimedOutLaunches = {1, 2}
  /\ elapsed = 20

\* ------------------------------------------- properties of the loop's end
\* C16: a plain response of the intent source is appended as the assistant
\* turn with no dispatch and no launch; on finish_reason "stop" the loop
\* ends and no step follows, otherwise it waits for the next user turn.
C16_PlainResponse ==
  /\ [][(pc = "await_intent" /\ message'.function_call = NoCall) =>
          /\ messages' = Append(messages,
                                [role |-> "assistant", content |-> message'.content])
          /\ dispatchCount' = dispatchCount
          /\ launchLog' = launchLog
          /\ askCount' = askCount
          /\ turns' = turns
          /\ pc' = IF finish_reason' = "stop" THEN "done" ELSE "input"]_vars
  /\ [][pc # "done"]_vars

C16_Witness ==
  /\ pc = "input"
  /\ finish_reason = "length"
  /\ Last(messages).role = "assistant"
  /\ dispatchCount = 1

\* the operator's terminate signal is taken
ExitSignal == \E u \in UserInputs : ReadExit(u)

\* C17: the operator's terminate signal is taken only at the user prompt;
\* it moves the loop from there directly to the end and leaves the
\* conversation and the launches already made as they are.
C17_ExitOnlyAtPrompt ==
  /\ []((ENABLED ExitSignal) <=> pc = "input")
  /\ [][(pc = "input" /\ pc' = "done") =>
          /\ launchLog' = launchLog
          /\ outs' = outs
          /\ messages' = messages]_vars

\* C17 as stated: the signal is taken in every state but the last.
C17_Original ==
  pc \in {"input", "await_intent", "executing"} => ENABLED ExitSignal

C17_Witness ==
  /\ pc = "done"
  /\ IsExit(user_input)
  /\ launchLog # <<>>
  /\ NumToolResults(messages) >= 1

\* the exit keyword as the operator may type it
ExitForms == {<<"exit">>, <<" ", "EXIT", " ">>}

\* C18: an input that is the exit keyword after trimming and lower-casing
\* ends the loop with no user turn appended, no call of the intent source
\* and no launch; as the first input it leaves zero calls and zero launches.
C18_ExitKeyword ==
  /\ [][(pc = "input" /\ user_input' \in ExitForms) =>
          /\ pc' = "done"
          /\ messages' = messages
          /\ askCount' = askCount
          /\ launchLog' = launchLog]_vars
  /\ []((pc = "done" /\ turns = 0) =>
          /\ askCount = 0
          /\ launchLog = <<>>
          /\ messages = <<SystemTurn>>)

C18_Witness ==
  /\ pc = "done"
  /\ turns = 0
  /\ user_input = <<" ", "EXIT", " ">>
  /\ askCount = 0

\* C20: once a user turn is accepted, the loop eventually appends the
\* assistant turn and waits for the next user turn or ends.
C20_TurnCompletes ==
  (pc \in {"await_intent", "executing"}) ~>
    (pc \in {"input", "done"} /\ Last(messages).role = "assistant")

\* --------------------------------------------- properties of the registry
AdvertisedNames == {function_schemas[i].name : i \in DOMAIN function_schemas}

\* call_function reaches a handler for the name (with an empty mapping)
Dispatches(function_name) ==
  CallFunction(function_name, [kind |-> "object", value |-> EmptyMapping]).kind = "run"

DispatchableNames == {n \in RequestedNames \cup AdvertisedNames : Dispatches(n)}

\* C21: throughout the session the advertised schemas are the ones the loop
\* was given, their names are pairwise distinct, and the advertised names
\* are exactly the names call_function dispatches to a handler.
C21_AdvertisedIsDispatchable ==
  /\ function_schemas = FunctionSchemas
  /\ \A i, j \in DOMAIN function_schemas :
       function_schemas[i].name = function_schemas[j].name => i = j
  /\ AdvertisedNames = DispatchableNames

C21_Witness ==
  /\ pc = "executing"
  /\ dispatchCount = 2
  /\ func_name = "check_git_status"
  /\ func_name \in AdvertisedNames

\* a turn that records the intent source's request of an operation
IsRequestTurn(turn, name) ==
  /\ turn.role = "assistant"
  /\ "function_call" \in DOMAIN turn
  /\ turn.function_call.name = name

\* C22: in the conversation every tool-result turn comes immediately after
\* the turn that records the request of that operation (its name and raw
\* arguments).
C22_RequestTurnPrecedesResult ==
  \A i \in DOMAIN messages :
    IsToolResult(messages[i]) =>
      /\ i > 1
      /\ IsRequestTurn(messages[i - 1], messages[i].name)

\* ---------------------------------------------------------- BugReportAgent
\* Field values of a BugReport, tagged with their python type.
NoneValue == [t |-> "none", v |-> ""]
StrValue(x) == [t |-> "str", v |-> x]
ListValue(x) == [t |-> "list", v |-> x]
\* a member of the Severity enum
SeverityValue(x) == [t |-> "enum", v |-> x]

SeverityNames == {"Low", "Medium", "High"}

\* BugReport.model_fields.keys(), in declaration order
BugReportFields ==
  <<"project_affected", "error_message", "steps_to_reproduce", "severity">>

\* BugReport(): every field at its default None
BlankReport ==
  [project_affected |-> NoneValue, error_message |-> NoneValue,
   steps_to_reproduce |-> NoneValue, severity |-> NoneValue]

\* the reports the intent source may return in response.output_parsed
ParsedReports ==
  [project_affected : {NoneValue, StrValue("proj")},
   error_message : {StrValue(""), StrValue("err")},
   steps_to_reproduce : {NoneValue, ListValue(<<>>), ListValue(<<"step1">>)},
   severity : {NoneValue, SeverityValue("Low"), StrValue("High"),
               StrValue("Critical")}]

\* openai.responses.parse returns a report or raises
ParseOutcomes ==
  {[kind |-> "parsed", report |-> r] : r \in ParsedReports}
    \cup {[kind |-> "error", report |-> BlankReport]}

\* `value in (None, "", [], {})`
IsEmptyValue(val) ==
  \/ val.t = "none"
  \/ val.t = "str" /\ val.v = ""
  \/ val.t = "list" /\ val.v = <<>>

\* the fields of the list for which the test holds, in order
RECURSIVE FieldsWhere(_, _, _)
FieldsWhere(fields, report, empty) ==
  IF fields = <<>> THEN <<>>
  ELSE (IF IsEmptyValue(report[Head(fields)]) = empty
        THEN <<Head(fields)>> ELSE <<>>)
       \o FieldsWhere(Tail(fields), report, empty)

\* `bug_report.severity not in [Severity.LOW, Severity.MEDIUM, Severity.HIGH]`;
\* Severity is a str enum, so an equal string is in the list
SeverityNotInEnum(val) == ~(val.t \in {"enum", "str"} /\ val.v \in SeverityNames)

Turn(report, kind, filled, missing, complete) ==
  [bug_report |-> report,
   prompt |-> [kind |-> kind, filled |-> filled, missing |-> missing],
   is_complete |-> complete]

\* a process_turn that asks for the severity instead of defaulting it
ProcessTurnNoDefault(outcome) ==
  IF outcome.kind = "error"
  THEN Turn(BlankReport, "problem", <<>>, <<>>, FALSE)
  ELSE LET r == outcome.report
           missing == FieldsWhere(BugReportFields, r, TRUE)
           filled == FieldsWhere(BugReportFields, r, FALSE)
       IN IF missing # <<>>
          THEN Turn(r, "please_provide", filled, missing, FALSE)
          ELSE IF SeverityNotInEnum(r.severity)
               THEN Turn(r, "invalid_severity", <<>>, <<>>, FALSE)
               ELSE Turn(r, "thank_you", <<>>, <<>>, TRUE)

\* process_turn(user_input), given what openai.responses.parse did; the
\* result is the tuple (bug_report, prompt, is_complete)
ProcessTurn(outcome) ==
  IF outcome.kind = "error"
  THEN Turn(BlankReport, "problem", <<>>, <<>>, FALSE)
  ELSE LET r == outcome.report
           missing == FieldsWhere(BugReportFields, r, TRUE)
           filled == FieldsWhere(BugReportFields, r, FALSE)
       IN IF missing = <<"severity">>
          THEN Turn([r EXCEPT !.severity = SeverityValue("Medium")],
                    "default_medium", <<>>, <<>>, TRUE)
          ELSE IF missing # <<>>
               THEN Turn(r, "please_provide", filled, missing, FALSE)
               ELSE IF SeverityNotInEnum(r.severity)
                    THEN Turn(r, "invalid_severity", <<>>, <<>>, FALSE)
                    ELSE Turn(r, "thank_you", <<>>, <<>>, TRUE)

\* state.model_dump(): the report as a dict of its four fields
ModelDump(report) == [f \in DOMAIN report |-> report[f]]

\* DevToolsAgent is not running
DevIdle ==
  /\ messages = <<SystemTurn>>
  /\ message = NoMessage
  /\ finish_reason = None
  /\ func_name = None
  /\ request = NoRequest
  /\ outs = <<>>
  /\ exc = NoException
  /\ launchLog = <<>>
  /\ askCount = 0
  /\ dispatchCount = 0
  /\ turnAsks = 0
  /\ turnDispatches = 0
  /\ turnRequests = <<>>
  /\ requestCount = 0
  /\ turns = 0
  /\ user_input = <<>>
  /\ response = NoResponse
  /\ elapsed = 0
  /\ function_schemas = <<>>

devVars == <<messages, message, finish_reason, func_name, request, outs, launchLog,
             askCount, dispatchCount, turnAsks, turnDispatches, turnRequests,
             requestCount, turns, user_input, response, elapsed, function_schemas>>

\* report_bug() starts: is_complete = False, the first input is awaited
BugInit ==
  /\ pc = "input"
  /\ DevIdle
  /\ BugIdle
  /\ FileIdle

\* report_bug line 185-186: the operator types a message and process_turn
\* returns its tuple
ProcessTurnReturns(outcome) ==
  /\ pc = "input"
  /\ parsed' = outcome
  /\ LET result == ProcessTurn(outcome)
     IN /\ bug_report' = result.bug_report
        /\ prompt' = result.prompt
        /\ is_complete' = result.is_complete
  /\ pc' = "turn_done"
  /\ UNCHANGED <<state, exc>>
  /\ UNCHANGED devVars
  /\ UNCHANGED fileVars

\* report_bug lines 187-190: the returned report replaces self.state, and
\* the loop ends when the turn was complete
StoreState ==
  /\ pc = "turn_done"
  /\ state' = ModelDump(bug_report)
  /\ pc' = IF is_complete THEN "done" ELSE "input"
  /\ UNCHANGED <<parsed, bug_report, prompt, is_complete, exc>>
  /\ UNCHANGED devVars
  /\ UNCHANGED fileVars

BugNext ==
  \/ \E outcome \in ParseOutcomes : ProcessTurnReturns(outcome)
  \/ StoreState

BugSpec == BugInit /\ [][BugNext]_vars

\* ------------------------------------------ properties of BugReportAgent
\* a field value that is present and not empty
Filled(val) ==
  \/ val.t \in {"str", "enum"} /\ val.v # ""
  \/ val.t = "list" /\ Len(val.v) > 0

AllFilledValid(report) ==
  /\ \A f \in DOMAIN report : Filled(report[f])
  /\ report.severity.v \in SeverityNames

OnlySeverityMissing(report) ==
  /\ \A f \in DOMAIN report \ {"severity"} : Filled(report[f])
  /\ ~Filled(report.severity)

MaxContent == 4
\* the largest chunk_size
MaxChunkSize == 3
\* the most files uploaded
MaxFiles == 1

Alphabet == <<"a", "b", "c", "d", "e", "f", "g", "h", "i", "j">>
Contents == {SubSeq(Alphabet, 1, n) : n \in 0..MaxContent}
ChunkSizes == 1..MaxChunkSize
FileNames == {"bigfile.txt"}
\* str(uuid.uuid4()) of the k-th upload
FileId(k) == <<"uuid", k>>
AskedFileIds == {FileId(k) : k \in 1..MaxFiles} \cup {<<"nonexistent_id", 0>>}
Answers == {"answer A", "answer B"}

Min(a, b) == IF a <= b THEN a ELSE b

\* chunking that leaves out a last, shorter chunk
RECURSIVE ChunksDropRemainder(_, _)
ChunksDropRemainder(content, chunk_size) ==
  IF Len(content) < chunk_size THEN <<>>
  ELSE <<SubSeq(content, 1, chunk_size)>>
       \o ChunksDropRemainder(SubSeq(content, chunk_size + 1, Len(content)), chunk_size)

\* [content[i : i + chunk_size] for i in range(0, len(content), chunk_size)]
RECURSIVE Chunks(_, _)
Chunks(content, chunk_size) ==
  IF content = <<>> THEN <<>>
  ELSE <<SubSeq(content, 1, Min(chunk_size, Len(content)))>>
       \o Chunks(SubSeq(content, chunk_size + 1, Len(content)), chunk_size)

\* a call of get_openai_completion: the prompt for one chunk, or the
\* synthesis prompt over the partial answers
ChunkPrompt(idx, chunk) == [kind |-> "chunk", part |-> idx, text |-> chunk]
SynthesisPrompt(answers) == [kind |-> "synthesis", part |-> 0, text |-> answers]

FileInit ==
  /\ pc = "idle"
  /\ DevIdle
  /\ BugIdle
  /\ FileIdle

\* upload_file(filename, content)
UploadFile(filename, content) ==
  /\ pc = "idle"
  /\ Cardinality(DOMAIN files) < MaxFiles
  /\ LET file_id == FileId(Cardinality(DOMAIN files) + 1)
     IN files' = [f \in DOMAIN files \cup {file_id} |->
                    IF f = file_id THEN [filename |-> filename, content |-> content]
                    ELSE files[f]]
  /\ UNCHANGED <<pc, exc, question, chunks, partial_answers, prompts, answer>>
  /\ UNCHANGED devVars
  /\ UNCHANGED bugVars

\* answer_question(file_id, question, chunk_size) up to its loop
AnswerQuestion(file_id, chunk_size) ==
  /\ pc = "idle"
  /\ question' = [file_id |-> file_id, chunk_size |-> chunk_size]
  /\ IF file_id \notin DOMAIN files
     THEN /\ pc' = "raised"
          /\ exc' = [type |-> "ValueError", detail |-> {"File not found."}]
          /\ UNCHANGED chunks
     ELSE /\ pc' = "answering"
          /\ chunks' = Chunks(files[file_id].content, chunk_size)
          /\ UNCHANGED exc
  /\ UNCHANGED <<files, partial_answers, prompts, answer>>
  /\ UNCHANGED devVars
  /\ UNCHANGED bugVars

\* lines 55-65: the completion for the next chunk returns
ChunkAnswered(a) ==
  /\ pc = "answering"
  /\ Len(partial_answers) < Len(chunks)
  /\ LET idx == Len(partial_answers) + 1
     IN prompts' = Append(prompts, ChunkPrompt(idx, chunks[idx]))
  /\ partial_answers' = Append(partial_answers, a)
  /\ UNCHANGED <<pc, exc, files, question, chunks, answer>>
  /\ UNCHANGED devVars
  /\ UNCHANGED bugVars

\* lines 67-68: the only partial answer is returned
ReturnSingle ==
  /\ pc = "answering"
  /\ Len(partial_answers) = Len(chunks)
  /\ Len(partial_answers) = 1
  /\ answer' = partial_answers[1]
  /\ pc' = "returned"
  /\ UNCHANGED <<exc, files, question, chunks, partial_answers, prompts>>
  /\ UNCHANGED devVars
  /\ UNCHANGED bugVars

\* lines 69-75: the synthesis completion returns and is returned
Synthesize(a) ==
  /\ pc = "answering"
  /\ Len(partial_answers) = Len(chunks)
  /\ Len(partial_answers) # 1
  /\ prompts' = Append(prompts, SynthesisPrompt(partial_answers))
  /\ answer' = a
  /\ pc' = "returned"
  /\ UNCHANGED <<exc, files, question, chunks, partial_answers>>
  /\ UNCHANGED devVars
  /\ UNCHANGED bugVars

FileNext ==
  \/ \E n \in FileNames, c \in Contents : UploadFile(n, c)
  \/ \E id \in AskedFileIds, size \in ChunkSizes : AnswerQuestion(id, size)
  \/ \E a \in Answers : ChunkAnswered(a)
  \/ ReturnSingle
  \/ \E a \in Answers : Synthesize(a)

FileSpec == FileInit /\ [][FileNext]_vars

\* ----------------------------------------- properties of FileSearchAgent
\* the number of chunks of chunk_size a content of the length splits into
NumChunks(length, chunk_size) == (length + chunk_size - 1) \div chunk_size

AskedContent == files[question.file_id].content

\* C24: answer_question on a stored file of n chunks issues n chunk
\* requests and then one synthesis request when n >= 2, and one request in
\* all when n = 1 or the content is empty; for a file id never uploaded it
\* raises ValueError and issues no request.
C24_CompletionRequests ==
  /\ pc = "returned" =>
       LET n == NumChunks(Len(AskedContent), question.chunk_size)
       IN /\ n >= 2 =>
               /\ Len(prompts) = n + 1
               /\ \A i \in 1..n : prompts[i].kind = "chunk"
               /\ prompts[n + 1].kind = "synthesis"
          /\ n <= 1 => Len(prompts) = 1
  /\ (question # NoQuestion /\ question.file_id \notin DOMAIN files) =>
       /\ pc = "raised"
       /\ exc.type = "ValueError"
       /\ prompts = <<>>

C24_Witness ==
  /\ pc = "returned"
  /\ Len(AskedContent) = 3
  /\ question.chunk_size = 2
  /\ Len(prompts) = 3

\* ------------------------------ properties of the formatter and the status
FormatterLinterReturned == pc = "returned" /\ func_name = "run_formatter_linter"

\* what a process printed, trimmed
Printed(o) == Strip(o.stdout \o o.stderr)

\* the output field says that the tool did not run to its end
ReportsToolFailure(text, names) ==
  /\ text # <<>>
  /\ text[1] \in {"Error", "Error:"}
  /\ names \cap Range(text) # {}

\* C25: every call of run_formatter_linter launches black and then pylint,
\* pylint whatever black did; each output field carries what its own tool
\* printed, or that tool's failure, whatever the other tool did.
C25_BothToolsRun ==
  /\ (func_name = "run_formatter_linter" /\ pc = "running" /\ Len(outs) = 1) =>
       /\ Len(launchLog) = 2
       /\ launchLog[2].argv[1] = "pylint"
  /\ FormatterLinterReturned =>
       /\ Len(launchLog) = 2
       /\ launchLog[1].argv[1] = "black"
       /\ launchLog[2].argv[1] = "pylint"
       /\ IF outs[1].kind = "completed"
          THEN response.black_output = Printed(outs[1])
          ELSE ReportsToolFailure(response.black_output, {"black", "black:"})
       /\ IF outs[2].kind = "completed"
          THEN response.pylint_output = Printed(outs[2])
          ELSE ReportsToolFailure(response.pylint_output, {"pylint", "pylint:"})

C25_Witness ==
  /\ FormatterLinterReturned
  /\ outs[1].kind = "launch_error"
  /\ outs[2].kind = "completed"
  /\ response.pylint_output = Printed(outs[2])
  /\ response.pylint_output # <<>>

BothCompleted == outs[1].kind = "completed" /\ outs[2].kind = "completed"

MentionsError(o) == \E i \in DOMAIN Printed(o) : Printed(o)[i] \in ErrorTokens

\* C26: run_formatter_linter returns success = true exactly when both
\* tools completed and neither printed text containing "Error"; a timeout
\* or a failed launch of either gives success = false.
C26_SuccessMeansNoErrorText ==
  FormatterLinterReturned =>
    response.success = (/\ BothCompleted
                        /\ ~MentionsError(outs[1])
                        /\ ~MentionsError(outs[2]))

\* C26 as stated: success exactly when both tools completed, whatever they
\* printed.
C26_Original ==
  FormatterLinterReturned => response.success = BothCompleted

C26_Witness ==
  /\ FormatterLinterReturned
  /\ BothCompleted
  /\ ~MentionsError(outs[1])
  /\ MentionsError(outs[2])
  /\ response.success = FALSE

GitStatusReturned == pc = "returned" /\ func_name = "check_git_status"

CleanTreeResponse == [uncommitted_files |-> <<>>, has_uncommitted |-> FALSE]

C29_FlagMatchesList ==
  GitStatusReturned =>
    (response.has_uncommitted <=> Len(response.uncommitted_files) > 0)

C29_Witness ==
  /\ GitStatusReturned
  /\ outs[1].kind = "completed"
  /\ outs[1].stdout # <<>>
  /\ response.uncommitted_files = <<>>
  /\ response.has_uncommitted = FALSE

\* ------------------------------------- the shape of the conversation
NumTurnsOf(role) == Cardinality({i \in DOMAIN messages : messages[i].role = role})

\* the roles that may come right before a turn of the role
MayPrecede(role) ==
  CASE role = "system" -> {}
    [] role = "user" -> {"system", "assistant"}
    [] role = "function" -> {"user", "function"}
    [] role = "assistant" -> {"user", "function"}

\* C28: the conversation is one system turn followed by groups of one user
\* turn, any number of function turns and one assistant turn, only the last
\* group possibly incomplete; there is one assistant turn per accepted user
\* turn once the loop waits for input or has ended normally, and it is there
\* when the loop ends on "stop".
C28_ConversationShape ==
  /\ messages # <<>>
  /\ messages[1].role = "system"
  /\ \A i \in 2..Len(messages) : messages[i - 1].role \in MayPrecede(messages[i].role)
  /\ NumTurnsOf("user") = turns
  /\ NumTurnsOf("assistant") \in {turns - 1, turns}
  /\ pc \in {"input", "done"} => NumTurnsOf("assistant") = turns
  /\ (pc = "done" /\ finish_reason = "stop") => Last(messages).role = "assistant"

C28_Witness ==
  /\ pc = "done"
  /\ finish_reason = "stop"
  /\ turns = 2
  /\ NumToolResults(messages) >= 1
  /\ NumTurnsOf("assistant") = 2

\* ------------------------------------------- properties of report_bug
\* what the dict holds for the field; an absent key is a field not collected
Collected(dict, f) == IF f \in DOMAIN dict THEN dict[f] ELSE NoneValue

\* C30: in a report_bug session a turn whose intent-source call failed
\* leaves self.state as it was before the turn, and the session loop ends
\* only after a turn that returned is_complete = true.
C30_FailedTurnKeepsState ==
  /\ [][(pc = "turn_done" /\ parsed.kind = "error") =>
          \A f \in Range(BugReportFields) : Collected(state', f) = Collected(state, f)]_vars
  /\ [][(pc # "done" /\ pc' = "done") => is_complete]_vars

====
